---- MODULE Spec2Model ----
(***************************************************************************)
(* Booking proxy of quicker-checker-inner (server/index.ts): the variation *)
(* cache (loadVariationsCache, getVariationDuration) and the direct        *)
(* booking handler (POST /api/appointments/direct).                        *)
(*                                                                         *)
(* Conventions.  Instants are integers counting minutes.  A timestamp      *)
(* string is a record [min, frac]: the instant it denotes and whether its  *)
(* text carries a ".000" millisecond part.  A numeric field that the       *)
(* upstream JSON omits is Absent; an omitted array is <<>>.                *)
(***************************************************************************)
EXTENDS Integers, Sequences, FiniteSets, TLC

\* ------------------------------------------------------------------------
\* Bounds of the model
\* ------------------------------------------------------------------------
\* longest list of services in one request body
MaxServices == 2

\* number of concurrently served booking requests
MaxInFlight == 2

\* pages a dog sync may report, and sync loops the browser client may hold
MaxPages == 2

MaxSyncLoops == 2

\* ------------------------------------------------------------------------
\* Constants of server/index.ts
\* ------------------------------------------------------------------------
DAYCARE_WEEKDAY == "91629241"
DAYCARE_SATURDAY == "92628859"
DAYCARE_SUNDAY == "111325854"
DAYCARE_VARIATIONS == {DAYCARE_WEEKDAY, DAYCARE_SATURDAY, DAYCARE_SUNDAY}

EVALUATION_VARIATION_ID == "91420537"
SPA_PRIMARY_SERVICE_ID == "99860007"
NAILS_ID == "91425203"
BOARDING_TOWNHOME_ID == "91404079"

EMPLOYEE_IDS == [boarding |-> "295288", spaServices |-> "295289",
                 evaluation |-> "295290", daycare |-> "295287"]

\* RESOURCE_MAP as a function on its keys (the Sunday daycare id is not a key)
RESOURCE_MAP ==
    (DAYCARE_WEEKDAY :> EMPLOYEE_IDS.daycare) @@
    (DAYCARE_SATURDAY :> EMPLOYEE_IDS.daycare) @@
    (EVALUATION_VARIATION_ID :> EMPLOYEE_IDS.evaluation) @@
    (BOARDING_TOWNHOME_ID :> EMPLOYEE_IDS.boarding) @@
    ("91404147" :> EMPLOYEE_IDS.boarding) @@
    ("111734724" :> EMPLOYEE_IDS.boarding)

ADD_ON_VARIATION_IDS ==
    {"91629719", "91629630", NAILS_ID, "106411403", "91425254", "91425350",
     "110883216", "112837451", "112837449", "110763601"}

\* default minutes of getVariationDuration
DEFAULT_DURATION == 15

\* default minutes of one boarding night
DEFAULT_NIGHT_SPAN == 1440

\* 24 * 60 * 60 * 1000 ms, in minutes
DAY_MINUTES == 1440

\* default boarding price when the cache has no entry
DEFAULT_BOARDING_PRICE == 55

\* ------------------------------------------------------------------------
\* JavaScript values
\* ------------------------------------------------------------------------
\* a numeric JSON field that is not there (undefined)
Absent == -1

\* JavaScript truthiness of a numeric field
Truthy(x) == x # Absent /\ x # 0

\* x || y on numeric fields
OrElse(x, y) == IF Truthy(x) THEN x ELSE y

\* ------------------------------------------------------------------------
\* Upstream catalog responses the model draws from
\* ------------------------------------------------------------------------
\* one entry of either catalog response
RawVariation(id, name, service_name, duration, tsr, add_on, price, pricings) ==
    [id |-> id, name |-> name, service_name |-> service_name,
     duration |-> duration, time_span_range |-> tsr, add_on |-> add_on,
     price |-> price, pricings |-> pricings]

Pricing(existing, new) == [existing_list_price |-> existing, new_list_price |-> new]

\* Booking API responses (bookingResponse.variations): the documented
\* catalogue, one whose fields disagree with the hardcoded tables, and a
\* short one.
BookingCatalogA ==
    << RawVariation(SPA_PRIMARY_SERVICE_ID, "Bath (Primary)", "Spa", 15, <<1, 1>>, FALSE, Absent, <<>>),
       RawVariation(NAILS_ID, "Nails", "Spa", 0, <<15, 15>>, TRUE, 0, <<>>),
       RawVariation(DAYCARE_WEEKDAY, "Daycare", "Daycare", 30, <<>>, FALSE, 35, <<>>),
       RawVariation(BOARDING_TOWNHOME_ID, "Boarding - 1 Dog Townhome", "Boarding", 20160, <<1440, 1440>>, FALSE, 0, <<>>) >>

BookingCatalogB ==
    << RawVariation(SPA_PRIMARY_SERVICE_ID, "Bath (Primary)", "Spa", 0, <<0, 0>>, TRUE, 0, <<Pricing(25, Absent)>>),
       RawVariation(NAILS_ID, "Nails", "Spa", 20, <<>>, FALSE, Absent, <<>>),
       RawVariation(BOARDING_TOWNHOME_ID, "Townhome Suite", "Boarding", 20160, <<0, 0>>, FALSE, Absent, <<>>) >>

BookingCatalogC ==
    << RawVariation(SPA_PRIMARY_SERVICE_ID, "Bath (Primary)", "Spa", 15, <<1, 1>>, FALSE, 0, <<>>),
       RawVariation(BOARDING_TOWNHOME_ID, "Boarding - 1 Dog Townhome", "Lodging", 20160, <<720, 720>>, FALSE, 0, <<>>) >>

BookingCatalogs == {BookingCatalogA, BookingCatalogB, BookingCatalogC}

\* Partner API responses (partnerRes.data.variations)
PartnerCatalogA ==
    << RawVariation(BOARDING_TOWNHOME_ID, "", "", 0, <<>>, FALSE, Absent, <<Pricing(55, Absent)>>),
       RawVariation(NAILS_ID, "", "", 0, <<>>, FALSE, 20, <<>>),
       RawVariation(SPA_PRIMARY_SERVICE_ID, "", "", 0, <<>>, FALSE, 30, <<Pricing(0, 0)>>),
       RawVariation(DAYCARE_WEEKDAY, "", "", 0, <<>>, FALSE, Absent, <<Pricing(Absent, 40)>>) >>

PartnerCatalogB ==
    << RawVariation(SPA_PRIMARY_SERVICE_ID, "", "", 0, <<>>, FALSE, 10, <<>>),
       RawVariation(BOARDING_TOWNHOME_ID, "", "", 0, <<>>, FALSE, 60, <<Pricing(Absent, Absent)>>) >>

PartnerCatalogs == {PartnerCatalogA, PartnerCatalogB}

\* the outcome of one catalog fetch: a response, or a rejection (network or
\* auth failure)
FetchOk(catalog) == [ok |-> TRUE, variations |-> catalog]

FetchFailed == [ok |-> FALSE, variations |-> <<>>]

BookingFetchOutcomes == {FetchOk(c) : c \in BookingCatalogs} \cup {FetchFailed}

PartnerFetchOutcomes == {FetchOk(c) : c \in PartnerCatalogs} \cup {FetchFailed}

\* ------------------------------------------------------------------------
\* The variation cache
\* ------------------------------------------------------------------------
\* the hardcoded name table the server starts with
InitialVariationNames ==
    ("91629241" :> "Daycare") @@ ("92628859" :> "Saturday Daycare") @@
    ("110709520" :> "Resident Daycare") @@ ("91420537" :> "Evaluation") @@
    ("99860007" :> "Bath (Primary)") @@ ("91629719" :> "Townie Bath") @@
    ("91629630" :> "Townie Deluxe Bath") @@ ("91425203" :> "Nails") @@
    ("106411403" :> "Stand Alone Nails") @@ ("91425254" :> "Blueberry Facial") @@
    ("91425350" :> "Teeth Brushing") @@ ("110883216" :> "All Add-Ons") @@
    ("91404079" :> "Boarding - 1 Dog Townhome") @@
    ("91404147" :> "Boarding - 1 Dog Luxury Suite") @@
    ("111734724" :> "Boarding - 1 Dog Double Suite")

\* new Map(): no entries
EmptyCache == << >>

\* price of one Partner API entry
PartnerPrice(pv) ==
    IF Len(pv.pricings) > 0
    THEN OrElse(OrElse(pv.pricings[1].existing_list_price,
                       pv.pricings[1].new_list_price), 0)
    ELSE IF pv.price # Absent THEN pv.price ELSE 0

\* priceMap: id -> price, only positive prices are recorded
RECURSIVE PriceMap(_)
PriceMap(partnerVariations) ==
    IF partnerVariations = <<>> THEN << >>
    ELSE LET n == Len(partnerVariations)
             pv == partnerVariations[n]
             rest == PriceMap(SubSeq(partnerVariations, 1, n - 1))
         IN IF PartnerPrice(pv) > 0
            THEN (pv.id :> PartnerPrice(pv)) @@ rest
            ELSE rest

\* mutant of MergedPrice: the Booking API's own price wins when it has one
MergedPrice_OwnFirst(v, priceMap) ==
    LET own == OrElse(OrElse(IF Len(v.pricings) > 0
                             THEN v.pricings[1].existing_list_price ELSE Absent,
                             v.price), 0)
    IN IF own > 0 THEN own
       ELSE IF v.id \in DOMAIN priceMap THEN priceMap[v.id] ELSE 0

\* mergedPrice of one Booking API entry
MergedPrice(v, priceMap) ==
    IF v.id \in DOMAIN priceMap
    THEN priceMap[v.id]
    ELSE OrElse(OrElse(IF Len(v.pricings) > 0
                       THEN v.pricings[1].existing_list_price ELSE Absent,
                       v.price), 0)

\* the VariationInfo cached for one Booking API entry
MakeInfo(v, priceMap) ==
    [id |-> v.id,
     name |-> IF v.name = "" THEN "Unknown" ELSE v.name,
     service_name |-> IF v.service_name = "" THEN "Unknown" ELSE v.service_name,
     duration |-> OrElse(v.duration, 0),
     add_on |-> v.add_on,
     price |-> MergedPrice(v, priceMap),
     time_span_range |-> v.time_span_range]

\* the fill loop: variationCache.set(id, info) for every entry, in order
RECURSIVE FillCache(_, _, _)
FillCache(cache, variations, priceMap) ==
    IF variations = <<>> THEN cache
    ELSE LET n == Len(variations)
             v == variations[n]
             before == FillCache(cache, SubSeq(variations, 1, n - 1), priceMap)
         IN (v.id :> MakeInfo(v, priceMap)) @@ before

\* the fill loop's update of VARIATION_NAMES
RECURSIVE FillNames(_, _)
FillNames(names, variations) ==
    IF variations = <<>> THEN names
    ELSE LET n == Len(variations)
             v == variations[n]
             before == FillNames(names, SubSeq(variations, 1, n - 1))
         IN IF v.name # "" /\ v.name # "Unknown"
            THEN (v.id :> v.name) @@ before
            ELSE before

\* getVariationInfo: the cached entry, or NoInfo for undefined
NoInfo == [id |-> "undefined"]

GetVariationInfo(cache, varId) ==
    IF varId \in DOMAIN cache THEN cache[varId] ELSE NoInfo

\* mutant of getVariationDuration: the duration field is preferred over
\* time_span_range
GetVariationDuration_DurationFirst(cache, varId) ==
    IF varId \notin DOMAIN cache THEN DEFAULT_DURATION
    ELSE LET cached == cache[varId]
         IN IF Truthy(cached.duration) /\ cached.duration > 0
            THEN cached.duration
            ELSE IF Len(cached.time_span_range) > 0 /\ cached.time_span_range[1] > 0
                 THEN cached.time_span_range[1]
                 ELSE DEFAULT_DURATION

\* getVariationDuration
GetVariationDuration(cache, varId) ==
    IF varId \notin DOMAIN cache THEN DEFAULT_DURATION
    ELSE LET cached == cache[varId]
         IN IF Len(cached.time_span_range) > 0 /\ cached.time_span_range[1] > 0
            THEN cached.time_span_range[1]
            ELSE IF Truthy(cached.duration) /\ cached.duration > 0
                 THEN cached.duration
                 ELSE DEFAULT_DURATION

\* getApiDuration
GetApiDuration(cache, varId) == GetVariationDuration(cache, varId)

\* ------------------------------------------------------------------------
\* Timestamps
\* ------------------------------------------------------------------------
Stamp(min, frac) == [min |-> min, frac |-> frac]

\* an omitted endAt
NoStamp == [min |-> 0, frac |-> FALSE, none |-> TRUE]

\* new Date(s).getTime(), in minutes
ParseDate(s) == s.min

\* new Date(t).toISOString().replace('.000Z', 'Z')
ToISOString(t) == Stamp(t, FALSE)

\* Math.round of num / den for den > 0: the nearest integer, halves upwards
MathRound(num, den) == (2 * num + den) \div (2 * den)

Max(a, b) == IF a >= b THEN a ELSE b

\* ------------------------------------------------------------------------
\* Requests the model draws from
\* ------------------------------------------------------------------------
\* 12:00 on the day the server runs, and on the next day
NoonToday == 12 * 60

NoonTomorrow == DAY_MINUTES + 12 * 60

BeginStamps == {Stamp(NoonToday, TRUE), Stamp(NoonTomorrow, FALSE)}

\* endAt - beginAt of the requests that carry an endAt, in minutes
StayOffsets == {-1440, 2160, 4320}

RequestIds == {SPA_PRIMARY_SERVICE_ID, NAILS_ID, DAYCARE_WEEKDAY, BOARDING_TOWNHOME_ID}

\* the ids a request carries as its single variationId
SingleRequestIds == RequestIds \cup {DAYCARE_SUNDAY, EVALUATION_VARIATION_ID}

\* the employeeId of a request body: omitted, or an explicit resource
RequestEmployeeIds == {"", EMPLOYEE_IDS.evaluation}

ServiceLists == UNION {[1..n -> RequestIds] : n \in 1..MaxServices}

\* req.body: a list of services, a single variationId, or neither
Request(variations, variationId, beginAt, endAt, employeeId) ==
    [variations |-> variations, variationId |-> variationId,
     beginAt |-> beginAt, endAt |-> endAt, employeeId |-> employeeId]

EndStamps(beginAt) ==
    {NoStamp} \cup {Stamp(beginAt.min + d, FALSE) : d \in StayOffsets}

Requests ==
    UNION {
      {Request(l, "", b, e, "") : l \in ServiceLists, e \in EndStamps(b)}
      \cup {Request(<<>>, v, b, e, emp) :
              v \in SingleRequestIds, e \in EndStamps(b), emp \in RequestEmployeeIds}
      \cup {Request(<<>>, "", b, NoStamp, "")}
      : b \in BeginStamps }

NoRequest == [variations |-> <<>>, variationId |-> "", none |-> TRUE]

\* ------------------------------------------------------------------------
\* POST /api/appointments/direct: building the payload
\* ------------------------------------------------------------------------
\* RESOURCE_MAP[varId] || fallback
ResourceFor(varId, fallback) ==
    IF varId \in DOMAIN RESOURCE_MAP THEN RESOURCE_MAP[varId] ELSE fallback

\* mutant of PriceOr: a missing entry is priced 0 whatever the fallback
PriceOr_ZeroFallback(info, fallback) == IF info = NoInfo THEN 0 ELSE info.price

\* varInfo?.price ?? fallback
PriceOr(info, fallback) == IF info = NoInfo THEN fallback ELSE info.price

\* one entry of the payload's variations array; parent_id "" when not set
Segment(varId, employeeId, beginAt, endAt, price, parentId) ==
    [variation_mytime_id |-> varId, variation_employee_id |-> employeeId,
     variation_begin_at |-> beginAt, variation_end_at |-> endAt,
     price |-> price, parent_id |-> parentId]

\* mutant of RequestedVarIds: the primary is prepended as soon as some
\* requested id is an add-on
RequestedVarIds_SomeAddOn(variations) ==
    IF \E i \in 1..Len(variations) : variations[i] \in ADD_ON_VARIATION_IDS
    THEN <<SPA_PRIMARY_SERVICE_ID>> \o variations
    ELSE variations

\* requestedVarIds after the add-on check: the primary Bath service is
\* prepended when every requested id is in ADD_ON_VARIATION_IDS
RequestedVarIds(variations) ==
    IF \A i \in 1..Len(variations) : variations[i] \in ADD_ON_VARIATION_IDS
    THEN <<SPA_PRIMARY_SERVICE_ID>> \o variations
    ELSE variations

\* minutes from the start to the end of the n-th service: the position of
\* currentStart after n rounds of the map callback
RECURSIVE ElapsedAfter(_, _, _)
ElapsedAfter(cache, varIds, n) ==
    IF n = 0 THEN 0
    ELSE ElapsedAfter(cache, varIds, n - 1) + GetVariationDuration(cache, varIds[n])

\* mutant of SequentialVariations: every service starts at the requested
\* start instead of when the previous one ends
SequentialVariations_AllAtStart(cache, varIds, beginAt) ==
    [index \in 1..Len(varIds) |->
        LET varId == varIds[index]
        IN Segment(varId,
                   ResourceFor(varId, EMPLOYEE_IDS.spaServices),
                   ToISOString(ParseDate(beginAt)),
                   ToISOString(ParseDate(beginAt) + GetVariationDuration(cache, varId)),
                   PriceOr(GetVariationInfo(cache, varId), 0),
                   IF index = 1 THEN "" ELSE varIds[1])]

\* the sequential variations built from a list of services
SequentialVariations(cache, varIds, beginAt) ==
    [index \in 1..Len(varIds) |->
        LET varId == varIds[index]
            start == ParseDate(beginAt) + ElapsedAfter(cache, varIds, index - 1)
        IN Segment(varId,
                   ResourceFor(varId, EMPLOYEE_IDS.spaServices),
                   ToISOString(start),
                   ToISOString(start + GetVariationDuration(cache, varId)),
                   PriceOr(GetVariationInfo(cache, varId), 0),
                   IF index = 1 THEN "" ELSE varIds[1])]

\* mutant of SingleVariation: the variation begins when the strict duration
\* has passed
SingleVariation_LateStart(cache, variationId, beginAt, employeeId) ==
    LET apiDur == OrElse(GetApiDuration(cache, variationId), 15)
    IN << Segment(variationId,
                  IF employeeId # "" THEN employeeId
                  ELSE ResourceFor(variationId, EMPLOYEE_IDS.spaServices),
                  ToISOString(ParseDate(beginAt) + apiDur),
                  ToISOString(ParseDate(beginAt) + 2 * apiDur),
                  PriceOr(GetVariationInfo(cache, variationId), 0),
                  "") >>

\* the one variation built from a single variationId
SingleVariation(cache, variationId, beginAt, employeeId) ==
    LET apiDur == OrElse(GetApiDuration(cache, variationId), 15)
    IN << Segment(variationId,
                  IF employeeId # "" THEN employeeId
                  ELSE ResourceFor(variationId, EMPLOYEE_IDS.spaServices),
                  beginAt,
                  ToISOString(ParseDate(beginAt) + apiDur),
                  PriceOr(GetVariationInfo(cache, variationId), 0),
                  "") >>

\* variationsArray before the boarding check
FirstVariations(cache, req) ==
    IF Len(req.variations) > 0
    THEN SequentialVariations(cache, RequestedVarIds(req.variations), req.beginAt)
    ELSE SingleVariation(cache, req.variationId, req.beginAt, req.employeeId)

\* name.toLowerCase().includes('boarding'), on the names the model uses
BoardingNames ==
    {"Boarding - 1 Dog Townhome", "Boarding - 1 Dog Luxury Suite",
     "Boarding - 1 Dog Double Suite"}

NameIncludesBoarding(name) == name \in BoardingNames

\* mutant of IsBoarding: only the service family decides
IsBoarding_FamilyOnly(cache, names, primaryVarId) ==
    LET primaryInfo == GetVariationInfo(cache, primaryVarId)
    IN primaryInfo # NoInfo /\ primaryInfo.service_name = "Boarding"

\* isBoarding of the first variation
IsBoarding(cache, names, primaryVarId) ==
    LET primaryInfo == GetVariationInfo(cache, primaryVarId)
        primaryVarName ==
            IF primaryInfo # NoInfo THEN primaryInfo.name
            ELSE IF primaryVarId \in DOMAIN names THEN names[primaryVarId]
            ELSE ""
    IN \/ (primaryInfo # NoInfo /\ primaryInfo.service_name = "Boarding")
       \/ NameIncludesBoarding(primaryVarName)

\* mutant of Nights: the quotient is truncated instead of rounded
Nights_Truncated(beginAt, endAt) ==
    LET beginDate == ParseDate(beginAt)
        checkoutDate == IF endAt # NoStamp THEN ParseDate(endAt)
                        ELSE beginDate + DAY_MINUTES
    IN Max(1, (checkoutDate - beginDate) \div DAY_MINUTES)

\* number of nights between check-in and checkout
Nights(beginAt, endAt) ==
    LET beginDate == ParseDate(beginAt)
        checkoutDate == IF endAt # NoStamp THEN ParseDate(endAt)
                        ELSE beginDate + DAY_MINUTES
    IN Max(1, MathRound(checkoutDate - beginDate, DAY_MINUTES))

\* primaryInfo?.time_span_range?.[0] || 1440
BaseSpan(primaryInfo) ==
    IF primaryInfo # NoInfo /\ Len(primaryInfo.time_span_range) > 0
    THEN OrElse(primaryInfo.time_span_range[1], DEFAULT_NIGHT_SPAN)
    ELSE DEFAULT_NIGHT_SPAN

\* mutant of NightVariations: every night carries the price of the whole stay
NightVariations_StayPrice(cache, variationId, beginAt, endAt) ==
    LET primaryInfo == GetVariationInfo(cache, variationId)
        baseSpan == BaseSpan(primaryInfo)
        beginDate == ParseDate(beginAt)
    IN [n \in 1..Nights(beginAt, endAt) |->
         Segment(variationId,
                 ResourceFor(variationId, EMPLOYEE_IDS.boarding),
                 ToISOString(beginDate + (n - 1) * baseSpan),
                 ToISOString(beginDate + n * baseSpan),
                 PriceOr(primaryInfo, DEFAULT_BOARDING_PRICE) * Nights(beginAt, endAt),
                 "")]

\* nightVariations: one entry per night
NightVariations(cache, variationId, beginAt, endAt) ==
    LET primaryInfo == GetVariationInfo(cache, variationId)
        baseSpan == BaseSpan(primaryInfo)
        beginDate == ParseDate(beginAt)
    IN [n \in 1..Nights(beginAt, endAt) |->
         Segment(variationId,
                 ResourceFor(variationId, EMPLOYEE_IDS.boarding),
                 ToISOString(beginDate + (n - 1) * baseSpan),
                 ToISOString(beginDate + n * baseSpan),
                 PriceOr(primaryInfo, DEFAULT_BOARDING_PRICE),
                 "")]

\* mutant of FinalVariations: the night segments are followed by the
\* sequencer's segments of the other services
FinalVariations_KeepOthers(cache, names, req) ==
    LET first == FirstVariations(cache, req)
    IN IF IsBoarding(cache, names, first[1].variation_mytime_id)
       THEN NightVariations(cache, first[1].variation_mytime_id, req.beginAt, req.endAt)
            \o SubSeq(first, 2, Len(first))
       ELSE first

\* the variations array that is sent
FinalVariations(cache, names, req) ==
    LET first == FirstVariations(cache, req)
    IN IF IsBoarding(cache, names, first[1].variation_mytime_id)
       THEN NightVariations(cache, first[1].variation_mytime_id, req.beginAt, req.endAt)
       ELSE first

\* mutant of AppointmentEndAt: the end of the primary (first) variation
AppointmentEndAt_PrimaryEnd(variationsArray) ==
    variationsArray[1].variation_end_at

\* appointmentEndAt: the last variation's end, on both branches
AppointmentEndAt(variationsArray) ==
    variationsArray[Len(variationsArray)].variation_end_at

\* appointmentData and bodyData for a request that names a service
AppointmentPayload(cache, names, req) ==
    LET variationsArray == FinalVariations(cache, names, req)
    IN [employee_mytime_id |-> FirstVariations(cache, req)[1].variation_employee_id,
        begin_at |-> req.beginAt,
        end_at |-> AppointmentEndAt(variationsArray),
        variations |-> variationsArray]

NoPayload == [variations |-> <<>>, none |-> TRUE]

\* the request names a service: a non-empty list, or a variationId
NamesService(req) == Len(req.variations) > 0 \/ req.variationId # ""

\* isDaycareService of the auto check-in
IsDaycareService(variationsArray) ==
    \E i \in 1..Len(variationsArray) :
        variationsArray[i].variation_mytime_id \in DAYCARE_VARIATIONS

\* the server's clock when the handler runs, and its offset from UTC
ServerNow == NoonToday + 2 * 60

ServerUtcOffset == 0 - 5 * 60

\* new Date(t).toDateString(): the local calendar day of an instant
ToDateString(t) == (t + ServerUtcOffset) \div DAY_MINUTES

\* isSameDay of the auto check-in
IsSameDay(beginAt) == ToDateString(ParseDate(beginAt)) = ToDateString(ServerNow)

\* the HTTP response of the handler
Response(status, success, error) ==
    [status |-> status, success |-> success, error |-> error]

NoResponse == [status |-> 0, success |-> FALSE, error |-> ""]

\* ------------------------------------------------------------------------
\* State
\* ------------------------------------------------------------------------
\* the process that runs the app.listen callback (and, in SpecRefresh, the
\* caller of loadVariationsCache)
ListenProc == 0

\* the booking requests being served
Bookings == 1..MaxInFlight

Procs == {ListenProc} \cup Bookings

VARIABLES
    variationCache,   \* the Map variationCache: id -> VariationInfo
    variationNames,   \* VARIATION_NAMES: id -> name
    pc,               \* where each process stands
    force,            \* the force argument of a process's latest loadVariationsCache call
    bookingResponse,  \* the Booking API response held across the Partner fetch
    sent,             \* upstream calls of the current run of a process, with their outcome
    req,              \* req.body of a booking, once the handler has read it
    appt,             \* the appointment payload a booking has assembled
    res,              \* the HTTP response a booking has sent
    cacheBefore       \* the cache as the caller of SpecRefresh saw it before its call

\* the browser client (src/app.ts)
VARIABLES
    authToken,        \* state.authToken
    isSyncing,        \* state.isSyncing
    syncLoops,        \* the running invocations of startBackgroundSync
    clientPc,         \* where init or handleLogin stands
    screen,           \* the screen that is shown
    syncToast         \* the toast the last ended sync loop has shown

serverVars == <<variationCache, variationNames, pc, force, bookingResponse, sent,
                req, appt, res, cacheBefore>>

clientVars == <<authToken, isSyncing, syncLoops, clientPc, screen, syncToast>>

vars == <<serverVars, clientVars>>

\* state.authToken is null
NoToken == ""

\* upstream calls
GET_BOOKING_VARIATIONS == "GET /companies/:id/variations"
GET_PARTNER_VARIATIONS == "GET partners-api /variations"
POST_APPOINTMENTS == "POST partners-api /appointments"
PUT_CLIENT_CHECKED_IN == "PUT partners-api /appointments/:id/client_checked_in"

\* an upstream call in the log: pending until it settles
Call(name, outcome) == [call |-> name, outcome |-> outcome]

\* the log with its last call settled
Settled(log, outcome) == [log EXCEPT ![Len(log)].outcome = outcome]

\* the state after module load; open: the slots that serve requests
InitWith(open) ==
    /\ variationCache = EmptyCache
    /\ variationNames = InitialVariationNames
    /\ pc = [p \in Procs |-> IF p = ListenProc THEN "boot"
                             ELSE IF p \in open THEN "idle" ELSE "off"]
    /\ force = [p \in Procs |-> FALSE]
    /\ bookingResponse = [p \in Procs |-> FetchFailed]
    /\ sent = [p \in Procs |-> <<>>]
    /\ req = [b \in Bookings |-> NoRequest]
    /\ appt = [b \in Bookings |-> NoPayload]
    /\ res = [b \in Bookings |-> NoResponse]
    /\ cacheBefore = EmptyCache
    /\ authToken = NoToken
    /\ isSyncing = FALSE
    /\ syncLoops = <<>>
    /\ clientPc = "init"
    /\ screen = "none"
    /\ syncToast = "none"

Init == InitWith(Bookings)

\* A handler that is not waiting for the network runs to its next await
\* before any other request or response is delivered.
Running == \E b \in Bookings : pc[b] \in {"loaded", "responded"}

\* where a process continues when loadVariationsCache returns
AfterLoad(p) == IF p = ListenProc THEN "ready" ELSE "loaded"

\* ------------------------------------------------------------------------
\* loadVariationsCache
\* ------------------------------------------------------------------------
\* mutant of LoadStart: the populated cache is not consulted, every call
\* fetches
LoadStart_AlwaysFetch(p, f) ==
    /\ variationCache' = IF f THEN EmptyCache ELSE variationCache
    /\ force' = [force EXCEPT ![p] = f]
    /\ sent' = [sent EXCEPT ![p] = <<Call(GET_BOOKING_VARIATIONS, "pending")>>]
    /\ pc' = [pc EXCEPT ![p] = "awaitBooking"]

\* from the call to the first await (or the early return)
LoadStart(p, f) ==
    IF ~f /\ variationCache # EmptyCache
    THEN /\ pc' = [pc EXCEPT ![p] = AfterLoad(p)]
         /\ sent' = [sent EXCEPT ![p] = <<>>]
         /\ force' = [force EXCEPT ![p] = f]
         /\ UNCHANGED variationCache
    ELSE /\ variationCache' = IF f THEN EmptyCache ELSE variationCache
         /\ force' = [force EXCEPT ![p] = f]
         /\ sent' = [sent EXCEPT ![p] = <<Call(GET_BOOKING_VARIATIONS, "pending")>>]
         /\ pc' = [pc EXCEPT ![p] = "awaitBooking"]

\* the Booking API fetch settles: on a response the Partner API fetch is
\* issued, on a rejection the outer catch ends the load
BookingReturns(p) ==
    /\ ~Running
    /\ pc[p] = "awaitBooking"
    /\ \E outcome \in BookingFetchOutcomes :
         IF outcome.ok
         THEN /\ bookingResponse' = [bookingResponse EXCEPT ![p] = outcome]
              /\ sent' = [sent EXCEPT ![p] =
                            Append(Settled(@, "ok"), Call(GET_PARTNER_VARIATIONS, "pending"))]
              /\ pc' = [pc EXCEPT ![p] = "awaitPartner"]
         ELSE /\ sent' = [sent EXCEPT ![p] = Settled(@, "failed")]
              /\ pc' = [pc EXCEPT ![p] = AfterLoad(p)]
              /\ UNCHANGED bookingResponse
    /\ UNCHANGED <<variationCache, variationNames, force, req, appt, res, cacheBefore, clientVars>>

\* mutant of PartnerReturns: a rejected Partner API fetch ends the load
\* before the cache is filled
PartnerReturns_FailureAborts(p) ==
    /\ ~Running
    /\ pc[p] = "awaitPartner"
    /\ \E outcome \in PartnerFetchOutcomes :
         LET priceMap == PriceMap(outcome.variations)
             variations == bookingResponse[p].variations
         IN /\ variationCache' = IF outcome.ok
                                  THEN FillCache(variationCache, variations, priceMap)
                                  ELSE variationCache
            /\ variationNames' = IF outcome.ok
                                  THEN FillNames(variationNames, variations)
                                  ELSE variationNames
            /\ sent' = [sent EXCEPT ![p] =
                          Settled(@, IF outcome.ok THEN "ok" ELSE "failed")]
    /\ bookingResponse' = [bookingResponse EXCEPT ![p] = FetchFailed]
    /\ pc' = [pc EXCEPT ![p] = AfterLoad(p)]
    /\ UNCHANGED <<force, req, appt, res, cacheBefore, clientVars>>

\* the Partner API fetch settles (a rejection leaves partnerVariations
\* empty); the price map is built and the cache is filled
PartnerReturns(p) ==
    /\ ~Running
    /\ pc[p] = "awaitPartner"
    /\ \E outcome \in PartnerFetchOutcomes :
         LET priceMap == PriceMap(outcome.variations)
             variations == bookingResponse[p].variations
         IN /\ variationCache' = FillCache(variationCache, variations, priceMap)
            /\ variationNames' = FillNames(variationNames, variations)
            /\ sent' = [sent EXCEPT ![p] =
                          Settled(@, IF outcome.ok THEN "ok" ELSE "failed")]
    /\ bookingResponse' = [bookingResponse EXCEPT ![p] = FetchFailed]
    /\ pc' = [pc EXCEPT ![p] = AfterLoad(p)]
    /\ UNCHANGED <<force, req, appt, res, cacheBefore, clientVars>>

\* ------------------------------------------------------------------------
\* The server
\* ------------------------------------------------------------------------
\* app.listen callback: await loadVariationsCache()
Listen ==
    /\ ~Running
    /\ pc[ListenProc] = "boot"
    /\ LoadStart(ListenProc, FALSE)
    /\ UNCHANGED <<variationNames, bookingResponse, req, appt, res, cacheBefore, clientVars>>

\* POST /api/appointments/direct arrives: await loadVariationsCache(true).
\* Requests are accepted once the server listens, and a request is served
\* in the lowest free slot.
HandleRequest(b) ==
    /\ ~Running
    /\ pc[ListenProc] # "boot"
    /\ pc[b] = "idle"
    /\ \A lower \in Bookings : lower < b => pc[lower] # "idle"
    /\ LoadStart(b, TRUE)
    /\ UNCHANGED <<variationNames, bookingResponse, req, appt, res, cacheBefore, clientVars>>

\* the handler after the refresh: it reads the body and builds the payload.
\* Logging the payload evaluates queryParams, which nothing declares: a
\* ReferenceError takes the handler to its catch block before the
\* appointment is posted.
Compile(b) ==
    /\ pc[b] = "loaded"
    /\ \E r \in Requests :
         /\ req' = [req EXCEPT ![b] = r]
         /\ IF NamesService(r)
            THEN /\ appt' = [appt EXCEPT ![b] =
                                AppointmentPayload(variationCache, variationNames, r)]
                 /\ res' = [res EXCEPT ![b] =
                                Response(500, FALSE, "queryParams is not defined")]
            ELSE /\ appt' = [appt EXCEPT ![b] = NoPayload]
                 /\ res' = [res EXCEPT ![b] =
                                Response(400, FALSE, "Missing variations")]
    /\ pc' = [pc EXCEPT ![b] = "responded"]
    /\ UNCHANGED <<variationCache, variationNames, force, bookingResponse, sent,
                   cacheBefore, clientVars>>

\* the handler has returned; the slot serves the next request
Finish(b) ==
    /\ pc[b] = "responded"
    /\ pc' = [pc EXCEPT ![b] = "idle"]
    /\ req' = [req EXCEPT ![b] = NoRequest]
    /\ appt' = [appt EXCEPT ![b] = NoPayload]
    /\ res' = [res EXCEPT ![b] = NoResponse]
    /\ sent' = [sent EXCEPT ![b] = <<>>]
    /\ force' = [force EXCEPT ![b] = FALSE]
    /\ UNCHANGED <<variationCache, variationNames, bookingResponse, cacheBefore, clientVars>>

Next ==
    \/ Listen
    \/ \E p \in Procs : BookingReturns(p)
    \/ \E p \in Procs : PartnerReturns(p)
    \/ \E b \in Bookings : HandleRequest(b)
    \/ \E b \in Bookings : Compile(b)
    \/ \E b \in Bookings : Finish(b)

Spec == Init /\ [][Next]_vars

\* the server when requests arrive one at a time: only the first slot is
\* ever used (the start-up load still overlaps the first requests)
InitSerial == InitWith({1})

SpecSerial == InitSerial /\ [][Next]_vars

\* ------------------------------------------------------------------------
\* loadVariationsCache on its own: a caller that calls it again and again,
\* forced or not, and notes the cache it saw before each call
\* ------------------------------------------------------------------------
RefreshCatalog(f) ==
    /\ pc[ListenProc] \in {"boot", "ready"}
    /\ cacheBefore' = variationCache
    /\ LoadStart(ListenProc, f)
    /\ UNCHANGED <<variationNames, bookingResponse, req, appt, res, clientVars>>

NextRefresh ==
    \/ \E f \in BOOLEAN : RefreshCatalog(f)
    \/ BookingReturns(ListenProc)
    \/ PartnerReturns(ListenProc)

SpecRefresh == Init /\ [][NextRefresh]_vars

\* ------------------------------------------------------------------------
\* The browser client: session and background sync
\* ------------------------------------------------------------------------
\* a sync loop that awaits call (api.syncDogs or cache.putDogs) for page
\* currentPage; totalPages is result.pagination.totalPages once known
SyncLoop(call, currentPage, totalPages) ==
    [awaits |-> call, currentPage |-> currentPage, totalPages |-> totalPages]

\* mutant of StartBackgroundSync: isSyncing is not consulted
StartBackgroundSync_Unguarded ==
    IF authToken = NoToken
    THEN UNCHANGED <<isSyncing, syncLoops>>
    ELSE /\ isSyncing' = TRUE
         /\ syncLoops' = Append(syncLoops, SyncLoop("syncDogs", 1, 0))

\* startBackgroundSync up to its first await: nothing happens while a sync
\* is on or without a token; else isSyncing is set and page 1 is requested
StartBackgroundSync ==
    IF isSyncing \/ authToken = NoToken
    THEN UNCHANGED <<isSyncing, syncLoops>>
    ELSE /\ isSyncing' = TRUE
         /\ syncLoops' = Append(syncLoops, SyncLoop("syncDogs", 1, 0))

\* the sync loop l has ended (last page, or the catch block): it shows its
\* toast, and the finally block resets isSyncing
EndSync(l, toast) ==
    /\ syncLoops' = SubSeq(syncLoops, 1, l - 1) \o SubSeq(syncLoops, l + 1, Len(syncLoops))
    /\ syncToast' = toast
    /\ isSyncing' = FALSE

\* api.syncDogs settles: a page with its pagination, or a failure (a
\* rejection, or a result without success)
SyncDogsReturns(l) ==
    /\ l \in 1..Len(syncLoops)
    /\ syncLoops[l].awaits = "syncDogs"
    /\ \/ \E totalPages \in 0..MaxPages :
            /\ syncLoops' = [syncLoops EXCEPT ![l] =
                               SyncLoop("putDogs", @.currentPage, totalPages)]
            /\ UNCHANGED <<isSyncing, syncToast>>
       \/ EndSync(l, "error")
    /\ UNCHANGED <<authToken, clientPc, screen, serverVars>>

\* cache.putDogs settles: the loop ends after the last page and asks for the
\* next page otherwise; a rejection ends it in the catch block
PutDogsReturns(l) ==
    /\ l \in 1..Len(syncLoops)
    /\ syncLoops[l].awaits = "putDogs"
    /\ \/ IF syncLoops[l].currentPage >= syncLoops[l].totalPages
          THEN EndSync(l, "complete")
          ELSE /\ syncLoops' = [syncLoops EXCEPT ![l] =
                                  SyncLoop("syncDogs", @.currentPage + 1, 0)]
               /\ UNCHANGED <<isSyncing, syncToast>>
       \/ EndSync(l, "error")
    /\ UNCHANGED <<authToken, clientPc, screen, serverVars>>

\* init: a saved session is restored and the main screen shown, else the
\* login screen
AppInit ==
    /\ clientPc = "init"
    /\ \E saved \in BOOLEAN :
         IF saved
         THEN /\ authToken' = "token"
              /\ screen' = "main"
              /\ clientPc' = "initMainScreen"
         ELSE /\ screen' = "login"
              /\ clientPc' = "idle"
              /\ UNCHANGED authToken
    /\ UNCHANGED <<isSyncing, syncLoops, syncToast, serverVars>>

\* handleLogin up to its await of api.login (the submit button is disabled
\* until the handler ends)
HandleLogin ==
    /\ clientPc = "idle"
    /\ screen = "login"
    /\ clientPc' = "awaitLogin"
    /\ UNCHANGED <<authToken, isSyncing, syncLoops, screen, syncToast, serverVars>>

\* api.login settles: on success the token (result.token || null) is kept
\* and the main screen shown
LoginReturns ==
    /\ clientPc = "awaitLogin"
    /\ \/ \E token \in {"token", NoToken} :
            /\ authToken' = token
            /\ screen' = "main"
            /\ clientPc' = "loginMainScreen"
       \/ /\ clientPc' = "idle"
          /\ UNCHANGED <<authToken, screen>>
    /\ UNCHANGED <<isSyncing, syncLoops, syncToast, serverVars>>

\* showMainScreen settles in init or handleLogin: the background sync is
\* started; when it has thrown, init stops and handleLogin reports the error
MainScreenShown ==
    /\ clientPc \in {"initMainScreen", "loginMainScreen"}
    /\ Len(syncLoops) < MaxSyncLoops
    /\ UNCHANGED <<authToken, screen, syncToast, serverVars>>
    /\ \/ /\ clientPc' = "idle"
          /\ StartBackgroundSync
       \/ /\ clientPc' = IF clientPc = "initMainScreen" THEN "halted" ELSE "idle"
          /\ UNCHANGED <<isSyncing, syncLoops>>

\* handleLogout, from the main screen once the listeners are set up
HandleLogout ==
    /\ screen = "main"
    /\ clientPc \in {"idle", "loginMainScreen"}
    /\ authToken' = NoToken
    /\ screen' = "login"
    /\ UNCHANGED <<isSyncing, syncLoops, clientPc, syncToast, serverVars>>

NextSync ==
    \/ AppInit
    \/ HandleLogin
    \/ LoginReturns
    \/ MainScreenShown
    \/ HandleLogout
    \/ \E l \in 1..MaxSyncLoops : SyncDogsReturns(l)
    \/ \E l \in 1..MaxSyncLoops : PutDogsReturns(l)

SpecSync == Init /\ [][NextSync]_vars

\* ------------------------------------------------------------------------
\* Properties
\* ------------------------------------------------------------------------
\* the bookings whose handler has assembled an appointment payload
Compiled == {b \in Bookings : pc[b] = "responded" /\ appt[b] # NoPayload}

\* the bookings routed to the boarding branch
BoardingBookings ==
    {b \in Compiled :
        IsBoarding(variationCache, variationNames,
                   FirstVariations(variationCache, req[b])[1].variation_mytime_id)}

SegBegin(b, i) == ParseDate(appt[b].variations[i].variation_begin_at)

SegEnd(b, i) == ParseDate(appt[b].variations[i].variation_end_at)

SegCount(b) == Len(appt[b].variations)

\* C1: in every assembled appointment payload the appointment's end instant
\* is the maximum end instant over all of its segments.
C1_EndIsLatestSegmentEnd ==
    \A b \in Compiled :
        /\ \A i \in 1..SegCount(b) : SegEnd(b, i) <= ParseDate(appt[b].end_at)
        /\ \E i \in 1..SegCount(b) : SegEnd(b, i) = ParseDate(appt[b].end_at)

\* C1 witness: a payload of a primary service and two add-ons whose
\* appointment end is later than the primary's end
C1_Witness ==
    \E b \in Compiled :
        /\ SegCount(b) = 3
        /\ appt[b].variations[3].parent_id # ""
        /\ ParseDate(appt[b].end_at) > SegEnd(b, 1)
        /\ ParseDate(appt[b].end_at) = SegEnd(b, 3)

\* C2: for a list request that is not routed to boarding, segment 0 begins
\* at the requested start, every segment lasts the resolved duration of its
\* service, each segment begins when the previous one ends, segment 0 has
\* no parent and every later segment's parent is segment 0's service id;
\* the segments are the requested ids, after an optional prepended primary.
C2_SequentialSegments ==
    \A b \in Compiled \ BoardingBookings :
        Len(req[b].variations) > 0 =>
            LET segs == appt[b].variations
                ids == [i \in 1..Len(segs) |-> segs[i].variation_mytime_id]
            IN /\ ids \in {req[b].variations,
                           <<SPA_PRIMARY_SERVICE_ID>> \o req[b].variations}
               /\ SegBegin(b, 1) = ParseDate(req[b].beginAt)
               /\ \A i \in 1..Len(segs) :
                    SegEnd(b, i) = SegBegin(b, i)
                                   + GetVariationDuration(variationCache, ids[i])
               /\ \A i \in 1..(Len(segs) - 1) : SegBegin(b, i + 1) = SegEnd(b, i)
               /\ segs[1].parent_id = ""
               /\ \A i \in 2..Len(segs) : segs[i].parent_id = ids[1]

\* C2 witness: three sequential segments of different lengths
C2_Witness ==
    \E b \in Compiled \ BoardingBookings :
        /\ Len(req[b].variations) > 0
        /\ SegCount(b) = 3
        /\ SegEnd(b, 1) - SegBegin(b, 1) # SegEnd(b, 2) - SegBegin(b, 2)
        /\ SegBegin(b, 3) = SegEnd(b, 2)
        /\ appt[b].variations[3].parent_id = appt[b].variations[1].variation_mytime_id

\* the check-in instant, and the checkout instant the claim speaks of
CheckIn(b) == ParseDate(req[b].beginAt)

Checkout(b) ==
    IF req[b].endAt = NoStamp THEN CheckIn(b) + 24 * 60 ELSE ParseDate(req[b].endAt)

\* k = max(1, round(stay / 24h)), halves rounded upwards, stated without a
\* division: stay lies within half a day of k days (below 1.5 days for k = 1)
IsNightCount(k, stay) ==
    IF k = 1 THEN 2 * stay < 3 * (24 * 60)
    ELSE /\ k > 1
         /\ (2 * k - 1) * (24 * 60) <= 2 * stay
         /\ 2 * stay < (2 * k + 1) * (24 * 60)

\* the boarding service of a boarding booking
BoardingService(b) == FirstVariations(variationCache, req[b])[1].variation_mytime_id

\* the shape of a boarding payload for a given night span
BoardingShape(b, nightSpan) ==
    LET k == SegCount(b)
    IN /\ IsNightCount(k, Checkout(b) - CheckIn(b))
       /\ \A i \in 1..k :
            /\ SegBegin(b, i) = CheckIn(b) + (i - 1) * nightSpan
            /\ SegEnd(b, i) = CheckIn(b) + i * nightSpan
       /\ ParseDate(appt[b].end_at) = CheckIn(b) + k * nightSpan

C4_DurationPrecedence ==
    \A id \in RequestIds \cup DOMAIN variationCache :
        LET d == GetVariationDuration(variationCache, id)
            cached == id \in DOMAIN variationCache
            hasSpan == /\ cached
                       /\ Len(variationCache[id].time_span_range) > 0
                       /\ variationCache[id].time_span_range[1] > 0
            hasDuration == cached /\ variationCache[id].duration > 0
        IN /\ d > 0
           /\ hasSpan => d = variationCache[id].time_span_range[1]
           /\ (~hasSpan /\ hasDuration) => d = variationCache[id].duration
           /\ (~hasSpan /\ ~hasDuration) => d = 15

\* C4 witness: a compiled segment that lasts the unit span of its service
\* although the cached record also has a different, positive duration; and
\* a requested id that is not cached
C4_Witness ==
    \E b \in Compiled \ BoardingBookings :
        /\ Len(req[b].variations) > 0
        /\ \E i \in 1..SegCount(b) :
             LET id == appt[b].variations[i].variation_mytime_id
             IN /\ id \in DOMAIN variationCache
                /\ variationCache[id].duration > 0
                /\ Len(variationCache[id].time_span_range) > 0
                /\ variationCache[id].time_span_range[1] > 0
                /\ variationCache[id].time_span_range[1] # variationCache[id].duration
                /\ SegEnd(b, i) - SegBegin(b, i) = variationCache[id].time_span_range[1]
        /\ \E i \in 1..SegCount(b) :
             /\ appt[b].variations[i].variation_mytime_id \notin DOMAIN variationCache
             /\ SegEnd(b, i) - SegBegin(b, i) = 15

\* the upstream calls of a process that have a given name and outcome
Calls(p, name, outcomes) ==
    {i \in 1..Len(sent[p]) : sent[p][i].call = name /\ sent[p][i].outcome \in outcomes}

\* C5 as stated: when a catalog fetch of a refresh has failed, the refresh
\* returns and the cache holds exactly the entries it held before the
\* refresh began.
C5_Original ==
    (pc[ListenProc] = "ready" /\ \E i \in 1..Len(sent[ListenProc]) :
                                    sent[ListenProc][i].outcome = "failed")
        => variationCache = cacheBefore

\* a cache that holds every entry of one complete refresh
CompleteSnapshot(cache) ==
    \E bc \in BookingCatalogs : \E po \in PartnerFetchOutcomes :
        /\ cache # EmptyCache
        /\ FillCache(cache, bc, PriceMap(po.variations)) = cache

\* C6 as stated: a booking that has read the cache while another forced
\* refresh is in flight has seen the complete contents of a refresh, never an
\* empty or partially filled cache.
C6_Original ==
    \A b \in Bookings :
        (/\ pc[b] = "loaded"
         /\ \E p \in Procs \ {b} : force[p] /\ pc[p] \in {"awaitBooking", "awaitPartner"})
            => CompleteSnapshot(variationCache)

\* C7: a call that is not forced and finds the cache populated issues no
\* upstream request and leaves the cache unchanged; a forced call clears the
\* cache and issues the Booking API fetch whatever the cache holds, and the
\* Partner API fetch follows the Booking API response.
C7_RefreshIdempotence ==
    [][ /\ pc[ListenProc] \in {"boot", "ready"} =>
              /\ (~force'[ListenProc] /\ variationCache # EmptyCache) =>
                    /\ pc'[ListenProc] = "ready"
                    /\ sent'[ListenProc] = <<>>
                    /\ variationCache' = variationCache
              /\ force'[ListenProc] =>
                    /\ pc'[ListenProc] = "awaitBooking"
                    /\ Calls(ListenProc, GET_BOOKING_VARIATIONS, {"pending"})' = {1}
        /\ (pc[ListenProc] = "awaitBooking" /\ pc'[ListenProc] = "awaitPartner") =>
              Calls(ListenProc, GET_PARTNER_VARIATIONS, {"pending"})' = {2}
       ]_vars

\* C7 witness: a call that was not forced has returned without any upstream
\* request, the cache being populated
C7_Witness ==
    /\ pc[ListenProc] = "ready"
    /\ ~force[ListenProc]
    /\ sent[ListenProc] = <<>>
    /\ variationCache # EmptyCache
    /\ cacheBefore = variationCache

\* the auto check-in request was issued for a booking
CheckInIssued(b) == Calls(b, PUT_CLIENT_CHECKED_IN, {"pending", "ok", "failed"}) # {}

\* upstream rejected the appointment of a booking
UpstreamRejected(b) == Calls(b, POST_APPOINTMENTS, {"failed"}) # {}

\* C8 as stated: for a booking that names a service and that upstream does
\* not reject, the server issues a check-in request if and only if the
\* appointment has a daycare service and begins on today's local date.
C8_Original ==
    \A b \in Compiled :
        ~UpstreamRejected(b) =>
            (CheckInIssued(b) <=>
                (IsDaycareService(appt[b].variations) /\ IsSameDay(appt[b].begin_at)))

\* C9 as stated: a request that names no service is rejected with the
\* missing-selection error and no upstream request is made for it.
C9_Original ==
    \A b \in Bookings :
        (pc[b] = "responded" /\ ~NamesService(req[b])) =>
            /\ res[b].status = 400
            /\ res[b].error = "Missing variations"
            /\ sent[b] = <<>>

\* the service ids of the segments of a payload
SegmentIds(b) == [i \in 1..SegCount(b) |-> appt[b].variations[i].variation_mytime_id]

\* the list requests whose segment list is the one the sequencer built
ListBookings == {b \in Compiled \ BoardingBookings : Len(req[b].variations) > 0}

\* C10 as stated: the primary spa service is prepended exactly when every
\* requested id is flagged as an add-on in the catalog cache.
C10_Original ==
    \A b \in ListBookings :
      (\A i \in 1..Len(req[b].variations) : req[b].variations[i] \in DOMAIN variationCache) =>
        SegmentIds(b) =
            IF \A i \in 1..Len(req[b].variations) :
                  /\ req[b].variations[i] \in DOMAIN variationCache
                  /\ variationCache[req[b].variations[i]].add_on
            THEN <<SPA_PRIMARY_SERVICE_ID>> \o req[b].variations
            ELSE req[b].variations

\* C10 amended: the primary spa service is prepended, the requested ids
\* following in their order, exactly when every requested id is in the
\* server's own list of add-on ids; otherwise the list is left unchanged.
C10_PrependPrimary ==
    \A b \in ListBookings :
        SegmentIds(b) =
            IF \A i \in 1..Len(req[b].variations) :
                  req[b].variations[i] \in ADD_ON_VARIATION_IDS
            THEN <<SPA_PRIMARY_SERVICE_ID>> \o req[b].variations
            ELSE req[b].variations

\* C10 witness: a request of add-ons only, which the catalog does not flag
\* as add-ons, compiled with the primary as segment 0
C10_Witness ==
    \E b \in ListBookings :
        /\ \A i \in 1..Len(req[b].variations) :
              /\ req[b].variations[i] \in ADD_ON_VARIATION_IDS
              /\ req[b].variations[i] \in DOMAIN variationCache
              /\ ~variationCache[req[b].variations[i]].add_on
        /\ SegCount(b) = Len(req[b].variations) + 1
        /\ SegmentIds(b)[1] = SPA_PRIMARY_SERVICE_ID

\* C11 as stated: in every compiled appointment segment 0 is not an add-on
\* service (here: a service that both the server's add-on list and the
\* catalog flag as an add-on).
C11_Original ==
    \A b \in Compiled :
        LET id == SegmentIds(b)[1]
        IN ~(/\ id \in ADD_ON_VARIATION_IDS
             /\ id \in DOMAIN variationCache
             /\ variationCache[id].add_on)

\* the length in minutes and the price of a segment
SegLength(b, i) == SegEnd(b, i) - SegBegin(b, i)

SegPrice(b, i) == appt[b].variations[i].price

\* the segments of a payload whose service id has no entry in the cache
UncachedSegments(b) ==
    {i \in 1..SegCount(b) : SegmentIds(b)[i] \notin DOMAIN variationCache}

\* a request that names a service is compiled, not rejected as incomplete
CompiledNotRejected ==
    \A b \in Bookings :
        (pc[b] = "responded" /\ NamesService(req[b])) =>
            /\ appt[b] # NoPayload
            /\ res[b].error # "Missing variations"

UncachedBoarding(b) ==
    LET id == SegmentIds(b)[1]
    IN /\ id \notin DOMAIN variationCache
       /\ id \in DOMAIN variationNames
       /\ NameIncludesBoarding(variationNames[id])

UncachedBoardingCompiled ==
    \E b \in Compiled :
        UncachedBoarding(b) /\ SegCount(b) > 1 /\ SegPrice(b, 2) = 55

\* every call of a process with a given name, whatever its outcome
AllCalls(p, name) == Calls(p, name, {"pending", "ok", "failed"})

\* C13 as stated: the only error result of a booking that names a service
\* is an upstream rejection of its create-appointment call; a booking that
\* upstream did not reject is reported as a success, whatever became of its
\* check-in request.
C13_Original ==
    \A b \in Compiled :
        Calls(b, POST_APPOINTMENTS, {"failed"}) = {} => res[b].success

\* the booking is one the server follows with a check-in request
CheckInDue(b) == IsDaycareService(appt[b].variations) /\ IsSameDay(appt[b].begin_at)

\* C14 as stated: a same-day daycare booking that upstream did not reject and
\* whose check-in did not succeed is answered with a success result that
\* carries a check-in warning.
C14_Original ==
    \A b \in Compiled :
        (/\ CheckInDue(b)
         /\ Calls(b, POST_APPOINTMENTS, {"failed"}) = {}
         /\ Calls(b, PUT_CLIENT_CHECKED_IN, {"ok"}) = {})
            => res[b].success /\ "warning" \in DOMAIN res[b]

\* C15 as stated: a booking that names a service goes through refresh,
\* compile, submit and optional check-in in that order: when it has
\* answered, its catalog fetches have settled, one create-appointment call
\* follows them, and a check-in call comes only after a create call that
\* succeeded.
C15_Original ==
    \A b \in Compiled :
        /\ \A i \in 1..Len(sent[b]) : sent[b][i].outcome # "pending"
        /\ \E i \in AllCalls(b, POST_APPOINTMENTS) :
              /\ \A j \in AllCalls(b, GET_BOOKING_VARIATIONS)
                            \cup AllCalls(b, GET_PARTNER_VARIATIONS) : j < i
              /\ \A j \in AllCalls(b, PUT_CLIENT_CHECKED_IN) :
                    i < j /\ sent[b][i].outcome = "ok"

\* error details with which upstream rejects an appointment
UpstreamErrors ==
    {"end_at of appointment must be the latest end_at of all non-buffer segments"}

RefreshFills ==
    pc[ListenProc] = "awaitPartner" /\ pc'[ListenProc] = "ready"

\* the Partner API outcomes that agree with the logged outcome of the fetch
LoggedPartnerOutcomes(log) ==
    {po \in PartnerFetchOutcomes : po.ok = (log[Len(log)].outcome = "ok")}

\* the primary source's own price of an entry: its first pricing entry's
\* existing list price, else its flat price, else 0
OwnPrice(v) ==
    IF Len(v.pricings) > 0 /\ v.pricings[1].existing_list_price > 0
    THEN v.pricings[1].existing_list_price
    ELSE IF v.price > 0 THEN v.price ELSE 0

\* C17: when a refresh fills the cache, every service the primary source
\* returned is cached with the secondary source's recorded price for its id
\* when one is recorded (recorded prices are positive), and with the primary
\* source's own price (0 when it has none) otherwise.
C17_MergedPrice ==
    [][ RefreshFills =>
          \E po \in LoggedPartnerOutcomes(sent'[ListenProc]) :
             LET recorded == PriceMap(po.variations)
                 returned == bookingResponse[ListenProc].variations
             IN /\ \A id \in DOMAIN recorded : recorded[id] > 0
                /\ \A i \in 1..Len(returned) :
                      /\ returned[i].id \in DOMAIN variationCache'
                      /\ variationCache'[returned[i].id].price =
                            IF returned[i].id \in DOMAIN recorded
                            THEN recorded[returned[i].id]
                            ELSE OwnPrice(returned[i])
      ]_vars

\* C17 witness: after a refresh whose two fetches succeeded, Bath is cached
\* at the secondary source's 10 although the primary source lists it at 25,
\* and Nails, which the secondary source does not price, at the primary
\* source's 0
C17_Witness ==
    /\ pc[ListenProc] = "ready"
    /\ Len(sent[ListenProc]) = 2
    /\ \A i \in 1..2 : sent[ListenProc][i].outcome = "ok"
    /\ {SPA_PRIMARY_SERVICE_ID, NAILS_ID} \subseteq DOMAIN variationCache
    /\ variationCache[SPA_PRIMARY_SERVICE_ID].price = 10
    /\ variationCache[NAILS_ID].price = 0

\* the secondary-source price of an entry as the claim has it: the first
\* pricing entry's existing list price when positive, else the flat price
ClaimedSecondaryPrice(pv) ==
    IF Len(pv.pricings) > 0 /\ pv.pricings[1].existing_list_price > 0
    THEN pv.pricings[1].existing_list_price
    ELSE pv.price

\* C18 as stated: when a refresh whose Partner API fetch succeeded fills the
\* cache, a returned service for which the secondary source has a positive
\* price (existing list price of the first pricing entry, else flat price) is
\* cached at that price.
C18_Original ==
    [][ (RefreshFills /\ sent'[ListenProc][Len(sent'[ListenProc])].outcome = "ok") =>
          \E c \in PartnerCatalogs :
             \A i \in 1..Len(c) :
                (/\ ClaimedSecondaryPrice(c[i]) > 0
                 /\ c[i].id \in DOMAIN variationCache')
                    => variationCache'[c[i].id].price = ClaimedSecondaryPrice(c[i])
      ]_vars

\* the service ids of a catalog response
CatalogIds(variations) == {variations[i].id : i \in 1..Len(variations)}

\* C19 as stated: when a forced refresh completes successfully, the key set
\* of the cache is exactly the set of service ids the Booking API returned
\* to that refresh.
C19_Original ==
    [][ \A p \in Procs :
          (force[p] /\ pc[p] = "awaitPartner" /\ pc'[p] = AfterLoad(p)) =>
              DOMAIN variationCache' = CatalogIds(bookingResponse[p].variations)
      ]_vars

\* the service family and the name under which the server knows a service:
\* those of its cache entry, or without one no family and the name in the
\* server's name table
FamilyOf(id) ==
    IF id \in DOMAIN variationCache THEN variationCache[id].service_name ELSE ""

NameOf(id) ==
    IF id \in DOMAIN variationCache THEN variationCache[id].name
    ELSE IF id \in DOMAIN variationNames THEN variationNames[id]
    ELSE ""

\* C20: the segments of a compiled booking are the night segments of the
\* boarding expander if its first service has family 'Boarding' or a name
\* containing 'boarding' in any letter case, and the segment list of the
\* sequencer (or of the single-service branch), unchanged, otherwise.
C20_BoardingRouting ==
    \A b \in Compiled :
        LET first == FirstVariations(variationCache, req[b])
            id == first[1].variation_mytime_id
        IN IF FamilyOf(id) = "Boarding" \/ NameIncludesBoarding(NameOf(id))
           THEN appt[b].variations =
                    NightVariations(variationCache, id, req[b].beginAt, req[b].endAt)
           ELSE appt[b].variations = first

\* C20 witness: a list of two services whose first service has another
\* family but a boarding name is compiled into three night segments of that
\* service
C20_Witness ==
    \E b \in Compiled :
        LET id == req[b].variations[1]
        IN /\ Len(req[b].variations) = 2
           /\ req[b].variations[2] # id
           /\ id \in DOMAIN variationCache
           /\ variationCache[id].service_name # "Boarding"
           /\ NameIncludesBoarding(variationCache[id].name)
           /\ SegCount(b) = 3
           /\ \A i \in 1..3 : SegmentIds(b)[i] = id

\* a booking whose first service is neither of family 'Boarding' nor named
\* so keeps the two segments of the sequencer
SequencerKept ==
    \E b \in Compiled :
        /\ Len(req[b].variations) = 2
        /\ req[b].endAt # NoStamp
        /\ FamilyOf(req[b].variations[1]) = "Spa"
        /\ SegmentIds(b) = req[b].variations

\* the resource of a segment
SegResource(b, i) == appt[b].variations[i].variation_employee_id

\* the bookings built by the sequencer or the single-service branch for
\* which the caller named no resource
UnassignedBookings == {b \in Compiled \ BoardingBookings : req[b].employeeId = ""}

\* the resource the documented mapping gives a service
DocumentedResource(id) ==
    IF id \in DAYCARE_VARIATIONS THEN EMPLOYEE_IDS.daycare
    ELSE IF id = EVALUATION_VARIATION_ID THEN EMPLOYEE_IDS.evaluation
    ELSE IF id \in DOMAIN RESOURCE_MAP THEN RESOURCE_MAP[id]
    ELSE EMPLOYEE_IDS.spaServices

\* C21 as stated: when the caller names no resource, every non-boarding
\* segment has the resource-map entry of its service, or the spa-services
\* resource when the map has none, and thereby every daycare service
\* (weekday, Saturday, Sunday) the daycare resource and evaluation the
\* evaluation resource.
C21_Original ==
    \A b \in UnassignedBookings : \A i \in 1..SegCount(b) :
        /\ SegResource(b, i) = DocumentedResource(SegmentIds(b)[i])
        /\ SegResource(b, i) = IF SegmentIds(b)[i] \in DOMAIN RESOURCE_MAP
                               THEN RESOURCE_MAP[SegmentIds(b)[i]]
                               ELSE EMPLOYEE_IDS.spaServices

\* the first half of C21 alone: resource-map entry, else spa services
ResourceMapOrSpa ==
    \A b \in UnassignedBookings : \A i \in 1..SegCount(b) :
        SegResource(b, i) = IF SegmentIds(b)[i] \in DOMAIN RESOURCE_MAP
                            THEN RESOURCE_MAP[SegmentIds(b)[i]]
                            ELSE EMPLOYEE_IDS.spaServices

\* C22 as stated: the appointment-level resource is the resource of
\* segment 0 of the segment list in the payload.
C22_Original ==
    \A b \in Compiled : appt[b].employee_mytime_id = SegResource(b, 1)

\* C23: the night segments of a boarding appointment all have the service
\* id, the resource and the price of the first one, and when the service is
\* cached that price is the cached unit price, whatever the number of
\* nights.
C23_UniformNights ==
    \A b \in BoardingBookings :
        /\ \A i \in 1..SegCount(b) :
              /\ SegmentIds(b)[i] = SegmentIds(b)[1]
              /\ SegResource(b, i) = SegResource(b, 1)
              /\ SegPrice(b, i) = SegPrice(b, 1)
        /\ SegmentIds(b)[1] \in DOMAIN variationCache =>
              SegPrice(b, 1) = variationCache[SegmentIds(b)[1]].price

\* C23 witness: a three-night stay whose nights each cost the cached 55
C23_Witness ==
    \E b \in BoardingBookings :
        /\ SegCount(b) = 3
        /\ SegmentIds(b)[1] \in DOMAIN variationCache
        /\ variationCache[SegmentIds(b)[1]].price = 55
        /\ \A i \in 1..3 : SegPrice(b, i) = 55

\* C24: the begin instant of a compiled appointment is the requested start
\* instant and the begin instant of segment 0.
C24_BeginInstant ==
    \A b \in Compiled :
        /\ ParseDate(appt[b].begin_at) = ParseDate(req[b].beginAt)
        /\ SegBegin(b, 1) = ParseDate(appt[b].begin_at)

\* C24 witness: a single-service payload that is not a boarding one, whose
\* segment begins at the requested instant and ends later
C24_Witness ==
    \E b \in Compiled \ BoardingBookings :
        /\ req[b].variationId # ""
        /\ SegBegin(b, 1) = ParseDate(req[b].beginAt)
        /\ ParseDate(appt[b].begin_at) = ParseDate(req[b].beginAt)
        /\ SegEnd(b, 1) > SegBegin(b, 1)

\* the timestamp texts of appointment and segment 0 may differ (the
\* sequencer and the expander reformat the instant) although the instants
\* agree
BeginTextDiffers ==
    \E b \in Compiled :
        /\ appt[b].begin_at # appt[b].variations[1].variation_begin_at
        /\ SegBegin(b, 1) = ParseDate(appt[b].begin_at)

\* C25 as stated: for every booking request that names a service exactly one
\* create-appointment request is sent upstream, and the caller receives the
\* created appointment or the error of the stage that failed.
C25_Original ==
    \A b \in Bookings :
        (pc[b] = "responded" /\ NamesService(req[b])) =>
            /\ Cardinality(AllCalls(b, POST_APPOINTMENTS)) = 1
            /\ \/ res[b].success
               \/ res[b].error \in UpstreamErrors

\* handleCheckIn in the browser client, after the server has answered its
\* direct booking: whether the client goes on to send its own check-in
\* request (the service type is 'daycare'; the date is not consulted)
ClientChecksIn(b) == res[b].success /\ IsDaycareService(appt[b].variations)

\* what handleCheckIn shows the user at its end: an answer without success
\* is thrown and reported by the catch block under 'Check-in failed'
HandleCheckInToast(b) ==
    IF res[b].success
    THEN [type |-> "success", text |-> "booked"]
    ELSE [type |-> "error", text |-> "Check-in failed: " \o res[b].error]

\* the bookings compiled for a day that is not the server's today
FutureBookings == {b \in Compiled : ~IsSameDay(appt[b].begin_at)}

\* C26 as stated: for an appointment not dated today neither the server nor
\* the client sends a check-in request, and booking a future-dated daycare
\* appointment does not end in a check-in error.
C26_Original ==
    \A b \in FutureBookings :
        /\ AllCalls(b, PUT_CLIENT_CHECKED_IN) = {}
        /\ ~ClientChecksIn(b)
        /\ IsDaycareService(appt[b].variations) =>
              HandleCheckInToast(b).type # "error"

\* no check-in request is sent for a future-dated booking (no create request
\* succeeds, so neither the server nor the client gets as far)
NoFutureCheckIn ==
    \A b \in FutureBookings :
        AllCalls(b, PUT_CLIENT_CHECKED_IN) = {} /\ ~ClientChecksIn(b)

\* C27 as stated: forced refreshes that overlap and succeed leave the cache
\* of the one that wrote last. With the start-up load failed the only
\* writers are the forced refreshes of the bookings, and each clears the
\* cache when it starts: an entry that a successful refresh did not write
\* itself was written by a successful refresh that overlapped it. So the
\* cache after the fill of every successful forced refresh is what that
\* refresh alone produces from an empty cache.
C27_Original ==
    [][ \A p \in Bookings :
          ( /\ Calls(ListenProc, GET_BOOKING_VARIATIONS, {"failed"}) # {}
            /\ force[p]
            /\ pc[p] = "awaitPartner" /\ pc'[p] = "loaded"
            /\ sent'[p][2].outcome = "ok" )
          => \E po \in LoggedPartnerOutcomes(sent'[p]) :
                variationCache' = FillCache(EmptyCache, bookingResponse[p].variations,
                                            PriceMap(po.variations))
      ]_vars

\* C28: when the Booking API fetch of a refresh has succeeded and its
\* Partner API fetch fails, the refresh still returns to its caller with the
\* cache filled: every service the Booking API returned is cached, each at
\* the Booking API's own price (0 when it has none).
C28_SecondaryFailure ==
    [][ \A p \in Procs :
          ( /\ pc[p] = "awaitPartner" /\ pc'[p] # "awaitPartner"
            /\ sent'[p][2].outcome = "failed" )
          => LET returned == bookingResponse[p].variations
             IN /\ pc'[p] = AfterLoad(p)
                /\ sent'[p][1].outcome = "ok"
                /\ \A i \in 1..Len(returned) :
                      /\ returned[i].id \in DOMAIN variationCache'
                      /\ variationCache'[returned[i].id].price = OwnPrice(returned[i])
      ]_vars

\* C28 witness: a refresh whose Partner API fetch failed has returned, and
\* Bath is cached at the 25 the Booking API lists it at
C28_Witness ==
    /\ pc[ListenProc] = "ready"
    /\ Len(sent[ListenProc]) = 2
    /\ sent[ListenProc][1].outcome = "ok"
    /\ sent[ListenProc][2].outcome = "failed"
    /\ SPA_PRIMARY_SERVICE_ID \in DOMAIN variationCache
    /\ variationCache[SPA_PRIMARY_SERVICE_ID].price = 25

\* the first service of a compiled booking (after an optional prepended
\* primary)
FirstServiceId(b) == FirstVariations(variationCache, req[b])[1].variation_mytime_id

\* the bookings whose first service is classified as boarding
BoardingFirst ==
    {b \in Compiled : \/ FamilyOf(FirstServiceId(b)) = "Boarding"
                      \/ NameIncludesBoarding(NameOf(FirstServiceId(b)))}

\* C29: when the first service of a booking is classified as boarding, every
\* segment of the payload is a segment of that first service and has no
\* parent; the other services the request names are not in the payload.
C29_BoardingOnly ==
    \A b \in BoardingFirst :
        /\ SegCount(b) >= 1
        /\ \A i \in 1..SegCount(b) :
              /\ SegmentIds(b)[i] = FirstServiceId(b)
              /\ appt[b].variations[i].parent_id = ""
        /\ \A k \in 1..Len(req[b].variations) :
              req[b].variations[k] # FirstServiceId(b) =>
                 \A i \in 1..SegCount(b) : SegmentIds(b)[i] # req[b].variations[k]

\* C29 witness: a request for boarding followed by the Nails add-on is
\* compiled into night segments of the boarding service without Nails
C29_Witness ==
    \E b \in BoardingFirst :
        /\ req[b].variations = <<BOARDING_TOWNHOME_ID, NAILS_ID>>
        /\ SegCount(b) = 2
        /\ \A i \in 1..2 : SegmentIds(b)[i] = BOARDING_TOWNHOME_ID
        /\ \A i \in 1..2 : appt[b].variations[i].parent_id = ""

\* C30: in the browser client at most one sync loop runs, isSyncing is true
\* exactly while one runs, a step that ends a loop (last page or error)
\* leaves isSyncing false, and a call of startBackgroundSync made while
\* isSyncing is true or without a token changes nothing.
C30_SingleSync ==
    /\ [](Len(syncLoops) <= 1 /\ (isSyncing <=> syncLoops # <<>>))
    /\ [][ /\ Len(syncLoops') < Len(syncLoops) =>
                ~isSyncing' /\ syncToast' \in {"complete", "error"}
           /\ (isSyncing \/ authToken = NoToken) =>
                (Len(syncLoops') <= Len(syncLoops) /\ (isSyncing' => isSyncing))
         ]_vars

\* C30 witness: a sync loop is running for a session that has been logged
\* out, after an earlier loop ended at its last page
C30_Witness ==
    /\ isSyncing
    /\ Len(syncLoops) = 1
    /\ syncLoops[1].currentPage = 2
    /\ authToken = NoToken
    /\ syncToast = "complete"

\* a loop has ended in the catch block and none is running
SyncEndedByError == syncToast = "error" /\ ~isSyncing /\ syncLoops = <<>>

\* a second login while the first session's loop is still running
SyncSkipped == isSyncing /\ authToken # NoToken /\ clientPc = "idle" /\ syncToast = "none"

====
